---- MODULE Spec2Model ----
(***************************************************************************)
(* A state-machine model of the retrieval core of the ATS question         *)
(* answering tool: the embedding adapter (embeddings_manager.py), the      *)
(* vector store (vector_store.py), the hybrid ranker (hybrid_search.py)    *)
(* and the query engine with its answer cache (query_engine.py).           *)
(*                                                                         *)
(* Abstractions.  A text is a sequence of words (whitespace is what        *)
(* separates them).  An embedding vector has one integer coordinate in     *)
(* place of 1536 floats; the zero vector is 0.  Scores are exact           *)
(* rationals <<numerator, denominator>>.  Python's 0-based positions are   *)
(* 1-based here.  Lists longer than 1000 chunks (the IVF structure) are     *)
(* outside the bounds.                                                     *)
(***************************************************************************)
EXTENDS Integers, Sequences, FiniteSets, TLC

\* ------------------------------------------------------------ bounds
\* The metadata list of the vector-store specification grows no longer than this.
MaxMeta == 2
\* The largest k of a search call.
MaxK == 1
\* The longest chunk list process_resumes produces.
MaxCorpus == 2

\* ------------------------------------------------------------ data
Chunk1 == [filename |-> "a.pdf", chunk_id |-> 0,
           content |-> <<"Python", "and", "Go", "experience">>]
Chunk2 == [filename |-> "a.pdf", chunk_id |-> 1,
           content |-> <<"Senior", "Java", "developer">>]
Chunk3 == [filename |-> "b.pdf", chunk_id |-> 0,
           content |-> <<"Go", "backend", "engineer">>]
Chunks == {Chunk1, Chunk2, Chunk3}
\* The chunks the vector-store specification builds and adds.
StoreChunks == {Chunk1}

Query1 == <<"Go", "developer">>
Query2 == <<"Rust">>
Queries == {Query1, Query2}

Texts == {c.content : c \in Chunks} \cup Queries

SeqsUpTo(S, n) == UNION {[1..m -> S] : m \in 0..n}

\* An optional value: Python's None, or a value.
None == [some |-> FALSE]
Some(v) == [some |-> TRUE, val |-> v]

\* ------------------------------------------------------------ embedding service
\* The vector the external embedding service answers for a text: a fixed,
\* non-zero vector per text.
ServiceVector(text) ==
    CASE text = Chunk1.content -> 1
      [] text = Chunk2.content -> 3
      [] text = Chunk3.content -> 2
      [] text = Query1 -> 2
      [] OTHER -> 4

ZeroVector == 0

\* The requests of a batch go out in sub-batches of this many texts.
batch_size == 100

VARIABLES
    \* ---- EmbeddingsManager
    cache,        \* the embedding cache: text -> None or Some(vector)
    \* ---- VectorStore
    index,        \* None, or Some(the sequence of vectors in the FAISS index)
    metadata,     \* the metadata list
    indexFile,    \* index.faiss on disk: None, or Some(vectors)
    metaFile,     \* metadata.pkl on disk: None, or Some(chunk list)
    vsCall,       \* the last VectorStore call: [op, raised, results]
    \* ---- HybridSearch
    bm25,         \* None, or Some(the tokenized corpus the BM25 index was built on)
    documents,    \* HybridSearch.documents
    argsortTies,  \* how the numpy build at hand orders equal scores in argsort
    hsCall,       \* the last HybridSearch.search call and what it returned
    \* ---- QueryEngine and the cache backend (Redis)
    use_cache,    \* QueryEngine.use_cache
    connected,    \* whether the ping of the constructor succeeded
    redisUp,      \* whether the cache backend is reachable now
    redis,        \* the backend: question -> None or Some([val, exp, text])
    now,          \* the clock, in seconds
    gen,          \* the generator that the last query(question, stream) call made
    \* ---- the EmbeddingsManager called on its own
    emCall,       \* the last get_embedding / get_embeddings_batch call
    \* ---- a second query session on the same cache backend
    gen2,         \* the generator that the second session's query() call made
    \* ---- process_resumes
    resume_chunks \* the chunk list (documents) made of the resumes

storeVars == <<cache, index, metadata, indexFile, metaFile, vsCall>>
hybridVars == <<bm25, documents, argsortTies, hsCall>>
queryVars == <<use_cache, connected, redisUp, redis, now, gen>>
embedVars == <<emCall>>
sessionVars == <<gen2>>
chunkVars == <<resume_chunks>>

\* ------------------------------------------------------------ EmbeddingsManager
\* The token budget of the embedding model.  A word of the model is a token.
MAX_TOKENS == 8191

\* tokens = encoder.encode(text); text = encoder.decode(tokens[:8191]) if longer
truncate_tokens(text) ==
    IF Len(text) > MAX_TOKENS THEN SubSeq(text, 1, MAX_TOKENS) ELSE text

\* An adapter that stores its fallback vector in the cache.
get_embedding_fallback_cached(text, c, ok) ==
    IF c[text].some THEN [vec |-> c[text].val, cache |-> c]
    ELSE IF ok THEN [vec |-> ServiceVector(truncate_tokens(text)),
                     cache |-> [c EXCEPT ![text] = Some(ServiceVector(truncate_tokens(text)))]]
    ELSE [vec |-> ZeroVector, cache |-> [c EXCEPT ![text] = Some(ZeroVector)]]

\* get_embedding(text) with the service answering (ok) or failing:
\* the vector returned and the cache afterwards.
get_embedding(text, c, ok) ==
    IF c[text].some THEN [vec |-> c[text].val, cache |-> c]
    ELSE IF ok THEN [vec |-> ServiceVector(truncate_tokens(text)),
                     cache |-> [c EXCEPT ![text] = Some(ServiceVector(truncate_tokens(text)))]]
    ELSE [vec |-> ZeroVector, cache |-> c]

\* The requests get_embedding(text) makes, each the list of its input texts:
\* none on a cache hit.
get_embedding_sent(text, c) ==
    IF c[text].some THEN <<>> ELSE << <<truncate_tokens(text)>> >>

\* The positions lo..hi of texts that miss the cache, in input order; the range
\* is halved so that the evaluation stays shallow on long lists.
RECURSIVE UncachedIn(_, _, _, _)
UncachedIn(texts, c, lo, hi) ==
    IF lo > hi THEN <<>>
    ELSE IF lo = hi THEN (IF c[texts[lo]].some THEN <<>> ELSE <<lo>>)
    ELSE UncachedIn(texts, c, lo, (lo + hi) \div 2)
            \o UncachedIn(texts, c, ((lo + hi) \div 2) + 1, hi)

\* The positions from i on of texts that miss the cache (uncached_indices).
UncachedIndices(texts, c, i) == UncachedIn(texts, c, i, Len(texts))

NumBatches(n) == (n + batch_size - 1) \div batch_size

\* The place, from p on, of input position i in the uncached list (0 when it
\* was cached).
PlaceIn(unc, i, p) ==
    IF \E q \in p..Len(unc) : unc[q] = i
    THEN CHOOSE q \in p..Len(unc) : unc[q] = i
    ELSE 0

\* An uncached list that takes the p-th input for the p-th uncached one.
uncached_text_by_place(texts, unc, p) == texts[p]

\* uncached_texts[p]: appended together with uncached_indices[p].
uncached_text(texts, unc, p) == texts[unc[p]]

\* A loop that takes every uncached text to be in the first sub-batch.
batch_of_first(p) == 1

\* The sub-batch (range(0, len, batch_size)) the p-th uncached text goes out in.
batch_of(p) == ((p - 1) \div batch_size) + 1

\* A request that carries every uncached text at once.
batch_input_whole(texts, unc, b) ==
    [j \in 1..Len(unc) |-> uncached_text(texts, unc, j)]

\* The input of the request of sub-batch b: uncached_texts[i:i+batch_size].
batch_input(texts, unc, b) ==
    [j \in 1..(IF b * batch_size <= Len(unc) THEN batch_size
               ELSE Len(unc) - (b - 1) * batch_size) |->
        uncached_text(texts, unc, (b - 1) * batch_size + j)]

\* get_embeddings_batch(texts): oks[b] says whether the request of sub-batch b
\* succeeds.  The response holds one vector per input of the request, in the
\* request's order, and embeddings[uncached_indices[i + j]] takes the j-th.
\* The list returned and the cache afterwards.
get_embeddings_batch(texts, c, oks) ==
    LET unc == UncachedIndices(texts, c, 1)
        filled(p) == IF oks[batch_of(p)]
                     THEN ServiceVector(uncached_text(texts, unc, p))
                     ELSE ZeroVector
        vec(i) == IF c[texts[i]].some THEN c[texts[i]].val
                  ELSE filled(PlaceIn(unc, i, 1))
        stored == {texts[unc[p]] : p \in {p \in 1..Len(unc) : oks[batch_of(p)]}}
    IN [vecs |-> [i \in 1..Len(texts) |-> vec(i)],
        cache |-> [t \in DOMAIN c |->
                      IF t \in stored
                      THEN Some(filled(CHOOSE p \in 1..Len(unc) :
                                          /\ texts[unc[p]] = t /\ oks[batch_of(p)]
                                          /\ \A r \in (p + 1)..Len(unc) :
                                                ~(texts[unc[r]] = t /\ oks[batch_of(r)])))
                      ELSE c[t]]]

\* The requests get_embeddings_batch(texts) makes, one per sub-batch, each the
\* list of its input texts.
get_embeddings_batch_sent(texts, c) ==
    LET unc == UncachedIndices(texts, c, 1)
    IN [b \in 1..NumBatches(Len(unc)) |-> batch_input(texts, unc, b)]

\* Whether the embedding service answers a get_embedding call matters only when
\* the call reaches the service.
ServiceOutcomes(text, c) == IF c[text].some THEN {TRUE} ELSE BOOLEAN

BatchOutcomes(texts, c) ==
    [1..NumBatches(Len(UncachedIndices(texts, c, 1))) -> BOOLEAN]

Contents(docs) == [i \in 1..Len(docs) |-> docs[i].content]

\* ------------------------------------------------------------ VectorStore
\* _save_index: how != "ok" is an I/O error, which the method swallows.
\*   "index_fails": write_index raises, nothing is written;
\*   "meta_fails":  index.faiss is written, the metadata write raises.
SaveOutcomes == {"ok", "index_fails", "meta_fails"}

save_indexFile(how, idx, oldFile) == IF how = "index_fails" THEN oldFile ELSE idx
save_metaFile(how, meta, oldFile) == IF how = "ok" THEN Some(meta) ELSE oldFile

\* create_index(documents) as a state change from (index, metadata).
\* np.array of an empty list has shape (0,), which index.add rejects by raising
\* after self.index was already replaced by a fresh, empty index.
create_index_raises(docs) == Len(docs) = 0

create_index_index(docs, vecs) == Some(vecs)

create_index_metadata(docs, meta) == IF create_index_raises(docs) THEN meta ELSE docs

CreateIndexStep(docs, oks, how) ==
    LET r == get_embeddings_batch(Contents(docs), cache, oks)
    IN /\ cache' = r.cache
       /\ index' = create_index_index(docs, r.vecs)
       /\ metadata' = create_index_metadata(docs, metadata)
       /\ IF create_index_raises(docs)
          THEN UNCHANGED <<indexFile, metaFile>>
          ELSE /\ indexFile' = save_indexFile(how, index', indexFile)
               /\ metaFile' = save_metaFile(how, metadata', metaFile)

CreateIndex ==
    /\ \E docs \in SeqsUpTo(StoreChunks, MaxMeta) :
       \E oks \in BatchOutcomes(Contents(docs), cache) :
       \E how \in SaveOutcomes :
          /\ CreateIndexStep(docs, oks, how)
          /\ vsCall' = [op |-> "create_index", raised |-> create_index_raises(docs),
                        results |-> <<>>]

\* add_documents(documents): the metadata list after a call that reaches line 91.
add_documents_metadata(meta, docs) == meta \o docs

AddDocuments ==
    /\ Len(metadata) <= MaxMeta
    /\ \E docs \in SeqsUpTo(StoreChunks, MaxMeta - Len(metadata)) :
       \E oks \in BatchOutcomes(Contents(docs), cache) :
       \E how \in SaveOutcomes :
          IF ~index.some
          THEN /\ CreateIndexStep(docs, oks, how)
               /\ vsCall' = [op |-> "add_documents",
                             raised |-> create_index_raises(docs), results |-> <<>>]
          ELSE LET r == get_embeddings_batch(Contents(docs), cache, oks)
               IN /\ cache' = r.cache
                  /\ IF Len(docs) = 0
                     THEN \* index.add raises on the (0,)-shaped array
                          /\ UNCHANGED <<index, metadata, indexFile, metaFile>>
                          /\ vsCall' = [op |-> "add_documents", raised |-> TRUE,
                                        results |-> <<>>]
                     ELSE /\ index' = Some(index.val \o r.vecs)
                          /\ metadata' = add_documents_metadata(metadata, docs)
                          /\ indexFile' = save_indexFile(how, index', indexFile)
                          /\ metaFile' = save_metaFile(how, metadata', metaFile)
                          /\ vsCall' = [op |-> "add_documents", raised |-> FALSE,
                                        results |-> <<>>]

\* A clear() that leaves the persisted files where they are.
ClearKeepsFiles ==
    /\ index' = None
    /\ metadata' = <<>>
    /\ vsCall' = [op |-> "clear", raised |-> FALSE, results |-> <<>>]
    /\ UNCHANGED <<cache, indexFile, metaFile>>

\* clear()
Clear ==
    /\ index' = None
    /\ metadata' = <<>>
    /\ indexFile' = None
    /\ metaFile' = None
    /\ vsCall' = [op |-> "clear", raised |-> FALSE, results |-> <<>>]
    /\ UNCHANGED cache

\* ------------------------------------------------------------ rationals
\* Exact comparison of a[1]/a[2] with b[1]/b[2] (denominators positive) by
\* continued fractions, which never leaves the 32-bit integers.
RECURSIVE RatLess(_, _)
RatLess(a, b) ==
    LET qa == a[1] \div a[2]
        qb == b[1] \div b[2]
        ra == a[1] % a[2]
        rb == b[1] % b[2]
    IN IF qa # qb THEN qa < qb
       ELSE IF rb = 0 THEN FALSE
       ELSE IF ra = 0 THEN TRUE
       ELSE RatLess(<<b[2], rb>>, <<a[2], ra>>)

RatEq(a, b) == ~RatLess(a, b) /\ ~RatLess(b, a)

Min(a, b) == IF a <= b THEN a ELSE b

\* ------------------------------------------------------------ VectorStore.search
\* _load_index: how says what reading the two files does.
\*   "ok"; "index_unreadable": read_index raises; "meta_unreadable": the index
\*   is read and assigned, then pickle.load raises.  The method swallows both.
LoadOutcomes == {"ok", "index_unreadable", "meta_unreadable"}

load_index(how, idx, meta, iFile, mFile) ==
    IF iFile.some /\ mFile.some
    THEN CASE how = "ok" -> [index |-> iFile, metadata |-> mFile.val]
           [] how = "index_unreadable" -> [index |-> idx, metadata |-> meta]
           [] OTHER -> [index |-> iFile, metadata |-> meta]
    ELSE [index |-> idx, metadata |-> meta]

\* Squared Euclidean distance, as IndexFlatL2 reports it.
Distance(x, y) == (x - y) * (x - y)

\* index.search(query_vector, n): the n nearest positions, nearest first, the
\* lower position first among equal distances.
Nearest(vecs, qv, n) ==
    LET before(j, i) == \/ Distance(vecs[j], qv) < Distance(vecs[i], qv)
                        \/ /\ Distance(vecs[j], qv) = Distance(vecs[i], qv)
                           /\ j < i
        rank(i) == Cardinality({j \in 1..Len(vecs) : before(j, i)}) + 1
    IN [r \in 1..n |-> CHOOSE i \in 1..Len(vecs) : rank(i) = r]

\* similarity = 1 / (1 + distance)
Similarity(d) == <<1, 1 + d>>

\* The result loop of search: positions past the metadata list are skipped.
RECURSIVE search_results(_, _, _, _)
search_results(near, vecs, meta, qv) ==
    IF near = <<>> THEN <<>>
    ELSE (IF Head(near) <= Len(meta)
          THEN <<[doc |-> meta[Head(near)],
                  score |-> Similarity(Distance(vecs[Head(near)], qv))]>>
          ELSE <<>>) \o search_results(Tail(near), vecs, meta, qv)

\* VectorStore.search(query, k): the call's outcome and the state it leaves.
\* faiss asserts k > 0 in index.search, so min(k, ntotal) = 0 raises.
vector_search(query, k, idx, meta, iFile, mFile, c, ok, how) ==
    LET ld == IF idx.some THEN [index |-> idx, metadata |-> meta]
              ELSE load_index(how, idx, meta, iFile, mFile)
    IN IF ~ld.index.some
       THEN [raised |-> FALSE, results |-> <<>>, index |-> ld.index,
             metadata |-> ld.metadata, cache |-> c]
       ELSE LET e == get_embedding(query, c, ok)
                n == Min(k, Len(ld.index.val))
            IN [raised |-> n <= 0,
                results |-> IF n <= 0 THEN <<>>
                            ELSE search_results(Nearest(ld.index.val, e.vec, n),
                                                ld.index.val, ld.metadata, e.vec),
                index |-> ld.index, metadata |-> ld.metadata, cache |-> e.cache]

\* ------------------------------------------------------------ lexical index
\* str.lower() on the words of the model.
Lower(w) ==
    CASE w = "Python" -> "python"
      [] w = "Go" -> "go"
      [] w = "Senior" -> "senior"
      [] w = "Java" -> "java"
      [] w = "Rust" -> "rust"
      [] OTHER -> w

\* doc['content'].lower().split()
Tokenize(text) == [i \in 1..Len(text) |-> Lower(text[i])]

\* build_bm25_index raises (ZeroDivisionError in BM25Okapi) on an empty list,
\* after self.documents was assigned.
build_bm25_raises(docs) == Len(docs) = 0

build_bm25_corpus(docs) == [i \in 1..Len(docs) |-> Tokenize(docs[i].content)]

\* BM25Okapi works in floats; the model works in thousandths, rounded down.
Scale == 1000

\* 1000 * ln(n + 0.5)
LnHalf(n) ==
    CASE n = 0 -> 0 - 693
      [] n = 1 -> 405
      [] n = 2 -> 916
      [] n = 3 -> 1253
      [] n = 4 -> 1504
      [] n = 5 -> 1705
      [] n = 6 -> 1872
      [] OTHER -> 2015

RECURSIVE SumSeq(_)
SumSeq(s) == IF s = <<>> THEN 0 ELSE Head(s) + SumSeq(Tail(s))

\* The sum of a function's values over the set S of its arguments.
RECURSIVE SumOver(_, _)
SumOver(f, S) ==
    IF S = {} THEN 0
    ELSE LET x == CHOOSE y \in S : TRUE IN f[x] + SumOver(f, S \ {x})

Count(w, toks) == Cardinality({i \in 1..Len(toks) : toks[i] = w})

\* BM25Okapi.get_scores(query_tokens) over the corpus the index was built on
\* (k1 = 1.5, b = 0.75, epsilon = 0.25): one score per document.
get_scores(qtoks, corpus) ==
    LET N == Len(corpus)
        total == SumSeq([i \in 1..N |-> Len(corpus[i])])
        vocab == UNION {{corpus[i][j] : j \in 1..Len(corpus[i])} : i \in 1..N}
        nd == [w \in vocab |-> Cardinality({i \in 1..N : Count(w, corpus[i]) > 0})]
        rawidf == [w \in vocab |-> LnHalf(N - nd[w]) - LnHalf(nd[w])]
        eps == SumOver(rawidf, vocab) \div (4 * Cardinality(vocab))
        idf == [w \in vocab |-> IF rawidf[w] < 0 THEN eps ELSE rawidf[w]]
        \* (idf.get(q) or 0) * tf * (k1 + 1) / (tf + k1 * (1 - b + b * dl / avgdl))
        term(w, i) == IF w \notin vocab THEN 0
                      ELSE LET tf == Count(w, corpus[i])
                           IN (idf[w] * 20 * tf * total)
                                 \div (8 * tf * total + 3 * total + 9 * Len(corpus[i]) * N)
    IN [i \in 1..N |-> SumSeq([j \in 1..Len(qtoks) |-> term(qtoks[j], i)])]

MaxOf(scores) == CHOOSE m \in {scores[i] : i \in DOMAIN scores} :
                    \A i \in DOMAIN scores : scores[i] <= m

\* np.argsort(scores)[-n:][::-1]: the positions of the n highest scores, highest
\* first.  numpy does not fix the order of equal scores; ties says which way the
\* build at hand orders them.
top_indices(scores, n, ties) ==
    LET m == Len(scores)
        take == IF n = 0 \/ n > m THEN m ELSE n
        before(j, i) == \/ scores[j] > scores[i]
                        \/ /\ scores[j] = scores[i]
                           /\ IF ties = "high_first" THEN j > i ELSE j < i
        rank(i) == Cardinality({j \in 1..m : before(j, i)}) + 1
    IN [r \in 1..take |-> CHOOSE i \in 1..m : rank(i) = r]

\* ------------------------------------------------------------ HybridSearch.search
VECTOR_SEARCH_WEIGHT == 7    \* tenths
KEYWORD_SEARCH_WEIGHT == 3   \* tenths

\* A key that forgets the chunk's place in its file.
doc_id_by_file(doc) == <<doc.filename, 0>>

\* doc_id = f"{doc['filename']}_{doc.get('chunk_id', 0)}"
doc_id(doc) ==
    <<doc.filename, IF "chunk_id" \in DOMAIN doc THEN doc.chunk_id ELSE 0>>

\* results[id] = entry on a Python dict kept as a list in insertion order: an
\* existing key keeps its place and takes the new value.
Upsert(res, e) ==
    IF \E i \in 1..Len(res) : res[i].id = e.id
    THEN [i \in 1..Len(res) |-> IF res[i].id = e.id THEN e ELSE res[i]]
    ELSE Append(res, e)

RECURSIVE merge_vector(_, _)
merge_vector(res, vres) ==
    IF vres = <<>> THEN res
    ELSE merge_vector(Upsert(res, [id |-> doc_id(Head(vres).doc), doc |-> Head(vres).doc,
                                   vector_score |-> Head(vres).score,
                                   keyword_score |-> <<0, 1>>]),
                      Tail(vres))

\* The lexical loop (lines 53-69).
RECURSIVE merge_lexical(_, _, _, _)
merge_lexical(res, top, scores, docs) ==
    IF top = <<>> THEN res
    ELSE LET idx == Head(top)
             highest == MaxOf(scores)
             max_score == IF highest > 0 THEN highest ELSE Scale
             normalized == <<scores[idx], max_score>>
             id == doc_id(docs[idx])
             old == CHOOSE i \in 1..Len(res) : res[i].id = id
             next == IF idx > Len(docs) THEN res
                     ELSE IF \E i \in 1..Len(res) : res[i].id = id
                     THEN [res EXCEPT ![old].keyword_score = normalized]
                     ELSE Append(res, [id |-> id, doc |-> docs[idx],
                                       vector_score |-> <<0, 1>>,
                                       keyword_score |-> normalized])
         IN merge_lexical(next, Tail(top), scores, docs)

\* A fusion with the two weights the other way round.
combined_score_swapped(v, kw) ==
    <<KEYWORD_SEARCH_WEIGHT * v[1] * kw[2] + VECTOR_SEARCH_WEIGHT * kw[1] * v[2],
      10 * v[2] * kw[2]>>

\* combined_score = 0.7 * vector_score + 0.3 * keyword_score
combined_score(v, kw) ==
    <<VECTOR_SEARCH_WEIGHT * v[1] * kw[2] + KEYWORD_SEARCH_WEIGHT * kw[1] * v[2],
      10 * v[2] * kw[2]>>

\* A descending sort that turns equal scores round.
sort_descending_unstable(res) ==
    LET before(j, i) == \/ RatLess(res[i].score, res[j].score)
                        \/ /\ RatEq(res[i].score, res[j].score)
                           /\ j > i
        rank(i) == Cardinality({j \in 1..Len(res) : before(j, i)}) + 1
    IN [r \in 1..Len(res) |-> res[CHOOSE i \in 1..Len(res) : rank(i) = r]]

\* list.sort(key = score, reverse = True): descending, equal scores keep their order.
sort_descending(res) ==
    LET before(j, i) == \/ RatLess(res[i].score, res[j].score)
                        \/ /\ RatEq(res[i].score, res[j].score)
                           /\ j < i
        rank(i) == Cardinality({j \in 1..Len(res) : before(j, i)}) + 1
    IN [r \in 1..Len(res) |-> res[CHOOSE i \in 1..Len(res) : rank(i) = r]]

\* final_results[:k] for k >= 0
truncate(res, k) == SubSeq(res, 1, Min(k, Len(res)))

\* The merged candidates, then the ranked answer, of search(query, k) given the
\* vector path's results.
merged_candidates(query, k, vres, bm, docs, ties) ==
    LET fromVector == merge_vector(<<>>, vres)
    IN IF bm.some
       THEN LET scores == get_scores(Tokenize(query), bm.val)
            IN merge_lexical(fromVector, top_indices(scores, 2 * k, ties), scores, docs)
       ELSE fromVector

final_results(merged) ==
    sort_descending([i \in 1..Len(merged) |->
                       [doc |-> merged[i].doc,
                        score |-> combined_score(merged[i].vector_score,
                                                 merged[i].keyword_score)]])

hybrid_search(query, k, vres, bm, docs, ties) ==
    truncate(final_results(merged_candidates(query, k, vres, bm, docs, ties)), k)

InitStore ==
    /\ cache = [t \in Texts |-> None]
    /\ index = None
    /\ metadata = <<>>
    /\ indexFile = None
    /\ metaFile = None
    /\ vsCall = [op |-> "init", raised |-> FALSE, results |-> <<>>]

NoCall == [op |-> "init", raised |-> FALSE]

InitHybrid ==
    /\ bm25 = None
    /\ documents = <<>>
    /\ hsCall = NoCall

\* VectorStore.search(query, k) called on its own.
VSearch ==
    \E q \in {Query1}, k \in 0..MaxK, how \in LoadOutcomes :
    \E ok \in ServiceOutcomes(q, cache) :
       LET v == vector_search(q, k, index, metadata, indexFile, metaFile, cache, ok, how)
       IN /\ index' = v.index
          /\ metadata' = v.metadata
          /\ cache' = v.cache
          /\ vsCall' = [op |-> "search", raised |-> v.raised, results |-> v.results]
          /\ UNCHANGED <<indexFile, metaFile>>

\* ------------------------------------------------------------ the vector store alone
vars == <<storeVars, hybridVars, queryVars, embedVars, sessionVars, chunkVars>>

\* No QueryEngine: the specifications of the store and of the ranker leave the
\* query engine's state alone.
NoGen == [pc |-> "none"]

NoEmCall == [op |-> "init"]

InitNoEngine ==
    /\ emCall = NoEmCall
    /\ gen2 = NoGen
    /\ resume_chunks = <<>>
    /\ use_cache = FALSE
    /\ connected = FALSE
    /\ redisUp = FALSE
    /\ redis = [q \in Queries |-> None]
    /\ now = 0
    /\ gen = NoGen

Init == InitStore /\ InitHybrid /\ InitNoEngine /\ argsortTies = "low_first"

Next ==
    \/ CreateIndex /\ UNCHANGED <<hybridVars, queryVars, embedVars, sessionVars, chunkVars>>
    \/ AddDocuments /\ UNCHANGED <<hybridVars, queryVars, embedVars, sessionVars, chunkVars>>
    \/ Clear /\ UNCHANGED <<hybridVars, queryVars, embedVars, sessionVars, chunkVars>>
    \/ VSearch /\ UNCHANGED <<hybridVars, queryVars, embedVars, sessionVars, chunkVars>>

Spec == Init /\ [][Next]_vars

\* C1: after every create_index or add_documents call that returns, the metadata
\* list is as long as the index structure holds vectors.
C1_MetadataMatchesIndex ==
    (vsCall.op \in {"create_index", "add_documents"} /\ ~vsCall.raised)
        => (index.some /\ Len(metadata) = Len(index.val))

\* ------------------------------------------------------------ the hybrid ranker
\* process_resumes (app.py), the first thing a run of the program does: on a
\* new VectorStore, create_index(documents), then a new HybridSearch with
\* build_bm25_index(documents).  An empty chunk list ends the program in
\* create_index.
ProcessResumes ==
    /\ ~index.some /\ metadata = <<>> /\ ~bm25.some
    /\ \E docs \in SeqsUpTo(Chunks, MaxCorpus) \ {<<>>} :
       \E oks \in BatchOutcomes(Contents(docs), cache) :
          /\ CreateIndexStep(docs, oks, "ok")
          /\ vsCall' = [op |-> "create_index", raised |-> FALSE, results |-> <<>>]
          /\ documents' = docs
          /\ bm25' = Some(build_bm25_corpus(docs))
          /\ hsCall' = NoCall
          /\ UNCHANGED argsortTies

\* A new process that builds nothing: VectorStore() and HybridSearch(store) as
\* constructed; the files and the embedding cache are what the last run left.
Restart ==
    /\ index' = None
    /\ metadata' = <<>>
    /\ bm25' = None
    /\ documents' = <<>>
    /\ hsCall' = NoCall
    /\ vsCall' = [op |-> "init", raised |-> FALSE, results |-> <<>>]
    /\ UNCHANGED <<cache, indexFile, metaFile, argsortTies>>

\* HybridSearch.search(query, k) with the embedding service answering (ok) or
\* failing: the call as a change of the store's and the ranker's state.
HSearchStep(q, k, ok) ==
    LET v == vector_search(q, 2 * k, index, metadata, indexFile, metaFile,
                           cache, ok, "ok")
        scores == get_scores(Tokenize(q), bm25.val)
    IN /\ index' = v.index
       /\ metadata' = v.metadata
       /\ cache' = v.cache
       /\ vsCall' = [op |-> "search", raised |-> v.raised, results |-> v.results]
       /\ hsCall' = IF v.raised
                    THEN [op |-> "search", raised |-> TRUE, query |-> q, k |-> k]
                    ELSE [op |-> "search", raised |-> FALSE, query |-> q, k |-> k,
                          vector |-> v.results,
                          lexical |-> IF bm25.some
                                      THEN top_indices(scores, 2 * k, argsortTies)
                                      ELSE <<>>,
                          results |-> hybrid_search(q, k, v.results, bm25,
                                                    documents, argsortTies)]
       /\ UNCHANGED <<indexFile, metaFile, bm25, documents, argsortTies>>

HSearch ==
    \E q \in Queries, k \in 0..MaxK :
    \E ok \in ServiceOutcomes(q, cache) : HSearchStep(q, k, ok)

InitH ==
    InitStore /\ InitHybrid /\ InitNoEngine /\ argsortTies \in {"low_first", "high_first"}

NextH ==
    \/ ProcessResumes /\ UNCHANGED <<queryVars, embedVars, sessionVars, chunkVars>>
    \/ Restart /\ UNCHANGED <<queryVars, embedVars, sessionVars, chunkVars>>
    \/ HSearch /\ UNCHANGED <<queryVars, embedVars, sessionVars, chunkVars>>
    \/ Clear /\ UNCHANGED <<hybridVars, queryVars, embedVars, sessionVars, chunkVars>>

SpecHybrid == InitH /\ [][NextH]_vars

\* The chunk keys the two retrieval paths of the last search came up with.
CandidateKeys ==
    {doc_id(hsCall.vector[i].doc) : i \in 1..Len(hsCall.vector)}
        \cup {doc_id(documents[hsCall.lexical[j]]) :
                 j \in {j \in 1..Len(hsCall.lexical) : hsCall.lexical[j] <= Len(documents)}}

\* C10: truncation law: for every query and every k >= 0, search(query, k)
\* returns, with at most k results, and with exactly k when the two paths came
\* up with at least k distinct chunk keys.
C10_TruncationLaw ==
    hsCall.op = "search" =>
        /\ ~hsCall.raised
        /\ Len(hsCall.results) <= hsCall.k
        /\ Cardinality(CandidateKeys) >= hsCall.k => Len(hsCall.results) = hsCall.k

\* ------------------------------------------------------------ QueryEngine
\* An answer is a text of code points; the backend stores its UTF-8 bytes.
\* 65 is "A" (one byte), 233 is "e acute" (two bytes).
CodePoints == {65, 233}

CACHE_TTL == 86400
TOP_K_SEARCH == 5
ENABLE_STREAMING == TRUE

\* The longest stream of chunks the generation service sends.
MaxFrags == 2
\* The clock is advanced at most this many times.
MaxTicks == 2

\* delta.content of a streamed chunk: empty (or None), or a fragment of text.
Deltas == {<<>>, <<65>>, <<233>>}
\* message.content of a non-streamed response: missing, empty, or a text.
Answers == {None, Some(<<>>), Some(<<65>>), Some(<<233, 65>>)}

\* "No relevant information found in the resumes."
NoInfoMessage == <<78, 111>>

\* str.encode() / bytes.decode('utf-8')
RECURSIVE utf8_encode(_)
utf8_encode(text) ==
    IF text = <<>> THEN <<>>
    ELSE (IF Head(text) < 128 THEN <<Head(text)>>
          ELSE <<192 + (Head(text) \div 64), 128 + (Head(text) % 64)>>)
         \o utf8_encode(Tail(text))

\* Reading the stored bytes as if each were a character.
utf8_decode_bytewise(bytes) == bytes

RECURSIVE utf8_decode(_)
utf8_decode(bytes) ==
    IF bytes = <<>> THEN <<>>
    ELSE IF Head(bytes) < 128 THEN <<Head(bytes)>> \o utf8_decode(Tail(bytes))
    ELSE <<(Head(bytes) - 192) * 64 + (bytes[2] - 128)>> \o utf8_decode(Tail(Tail(bytes)))

\* A constructor that keeps the cache on whatever the ping says.
init_use_cache_always(reachable) == TRUE

\* The constructor: use_cache is whether connecting and pinging succeeded.
init_use_cache(reachable) == reachable

\* redis_client.get(cache_key): the bytes of a live entry, or None.  The key
\* "query:" + md5(question) is one key per question.
redis_get(store, question, t) ==
    IF store[question].some /\ t < store[question].val.exp
    THEN Some(store[question].val.val)
    ELSE None

\* A backend whose write adds the text to what the key holds.
redis_append(store, question, ttl, text, t) ==
    [store EXCEPT ![question] =
        Some([val |-> (IF @.some THEN @.val.val ELSE <<>>) \o utf8_encode(text),
              exp |-> t + ttl,
              text |-> (IF @.some THEN @.val.text ELSE <<>>) \o text])]

\* redis_client.setex(cache_key, ttl, text)
redis_setex(store, question, ttl, text, t) ==
    [store EXCEPT ![question] =
        Some([val |-> utf8_encode(text), exp |-> t + ttl, text |-> text])]

\* if cached:
is_hit(cached) == cached.some /\ cached.val # <<>>

\* A check for results that never finds the list empty.
no_results_never(results) == FALSE

\* if not results:
no_results(results) == Len(results) = 0

\* if stream and Config.ENABLE_STREAMING:
use_streaming(stream) == stream /\ ENABLE_STREAMING

\* Accumulating with the new fragment in front.
accumulate_in_front(full, content) == content \o full

\* full_response += content
accumulate(full, content) == full \o content

\* A generator that writes the cache after every fragment.
stream_cache_write_eager(ended, use, full) == use /\ full # <<>>

\* Whether the streaming branch writes the cache: only past the loop (ended),
\* and there "if self.use_cache and full_response".
stream_cache_write(ended, use, full) == ended /\ use /\ full # <<>>

\* Whether the non-streaming branch writes the cache: "if self.use_cache".
nonstream_cache_write(use) == use

\* The first position after pos of a chunk with content, 0 when there is none.
NextContent(frags, pos) ==
    IF \E i \in (pos + 1)..Len(frags) : frags[i] # <<>>
    THEN CHOOSE i \in (pos + 1)..Len(frags) :
            /\ frags[i] # <<>>
            /\ \A j \in (pos + 1)..(i - 1) : frags[j] = <<>>
    ELSE 0

\* The generator as query(question, stream) makes it: no line of the body has run.
NewGen(question, stream) ==
    [pc |-> "created", question |-> question, stream |-> stream,
     entry0 |-> redis[question], checkedAt |-> 0 - 1, cached |-> None,
     hit |-> FALSE, searched |-> FALSE, found |-> 0, generated |-> FALSE,
     frags |-> <<>>, ends |-> "end", pos |-> 0, ended |-> FALSE,
     full_response |-> <<>>, yielded |-> <<>>, reads |-> 0, writes |-> <<>>,
     err |-> "none"]

Raised(g, why) == [g EXCEPT !.pc = "raised", !.err = why]

\* query(question, stream): the caller gets a generator.
Call ==
    /\ gen.pc \in {"none", "done", "raised", "closed"}
    /\ \E q \in {Query1}, stream \in BOOLEAN : gen' = NewGen(q, stream)
    /\ UNCHANGED <<embedVars, sessionVars, chunkVars, storeVars, hybridVars, use_cache, connected, redisUp, redis, now>>

\* A cache write at this point of the generator, if cond says there is one:
\* setex raises when the backend is unreachable.
WriteIf(cond, g, store, text, t, up) ==
    IF ~cond THEN [gen |-> g, redis |-> store]
    ELSE IF ~up THEN [gen |-> Raised(g, "cache"), redis |-> store]
    ELSE [gen |-> [g EXCEPT !.writes = Append(@, [question |-> g.question,
                                                   text |-> text, ttl |-> CACHE_TTL])],
          redis |-> redis_setex(store, g.question, CACHE_TTL, text, t)]

\* The streaming loop (lines 87-100) from the chunk after g.pos up to the next
\* yield, or past the loop to the cache write and the return, or to the
\* exception of a stream that fails.
StreamRun(g, store, t, use, up) ==
    LET nc == NextContent(g.frags, g.pos)
    IN IF nc > 0
       THEN LET full == accumulate(g.full_response, g.frags[nc])
            IN WriteIf(stream_cache_write(FALSE, use, full),
                       [g EXCEPT !.pc = "streaming", !.pos = nc, !.full_response = full,
                                 !.yielded = Append(@, Some(g.frags[nc]))],
                       store, full, t, up)
       ELSE IF g.ends = "error"
       THEN [gen |-> Raised([g EXCEPT !.pos = Len(g.frags)], "stream"), redis |-> store]
       ELSE WriteIf(stream_cache_write(TRUE, use, g.full_response),
                    [g EXCEPT !.pc = "done", !.pos = Len(g.frags), !.ended = TRUE],
                    store, g.full_response, t, up)

\* The non-streaming branch (lines 102-115) with the service's answer: the cache
\* write, then the yield.  setex rejects None by raising.
AnswerRun(g, answer, store, t, use, up) ==
    IF nonstream_cache_write(use) /\ up /\ ~answer.some
    THEN [gen |-> Raised(g, "cache_value"), redis |-> store]
    ELSE LET w == WriteIf(nonstream_cache_write(use), g, store,
                          IF answer.some THEN answer.val ELSE <<>>, t, up)
         IN IF w.gen.pc = "raised" THEN w
            ELSE [gen |-> [w.gen EXCEPT !.pc = "at_answer", !.yielded = <<answer>>],
                  redis |-> w.redis]

\* What the cache check of lines 32-41 comes to.
CheckOutcome ==
    IF ~use_cache THEN "miss"
    ELSE IF ~redisUp THEN "raise"
    ELSE IF is_hit(redis_get(redis, gen.question, now)) THEN "hit"
    ELSE "miss"

\* The first next(): the cache read raises.
CheckRaises ==
    /\ gen.pc = "created" /\ CheckOutcome = "raise"
    /\ gen' = Raised([gen EXCEPT !.reads = 1, !.checkedAt = now], "cache")
    /\ UNCHANGED <<embedVars, sessionVars, chunkVars, storeVars, hybridVars, use_cache, connected, redisUp, redis, now>>

\* The first next(): a cache hit, up to the yield of line 39.
CacheHit ==
    /\ gen.pc = "created" /\ CheckOutcome = "hit"
    /\ LET cached == redis_get(redis, gen.question, now)
       IN gen' = [gen EXCEPT !.pc = "at_hit", !.reads = 1, !.checkedAt = now,
                             !.cached = cached, !.hit = TRUE,
                             !.yielded = <<Some(utf8_decode(cached.val))>>]
    /\ UNCHANGED <<embedVars, sessionVars, chunkVars, storeVars, hybridVars, use_cache, connected, redisUp, redis, now>>

\* The first next() on a miss: the search, then the "no information" yield, or
\* the generation call and the run up to the first yield, the return or the raise.
CacheMiss ==
    /\ gen.pc = "created" /\ CheckOutcome = "miss"
    /\ \E ok \in ServiceOutcomes(gen.question, cache) :
          /\ HSearchStep(gen.question, TOP_K_SEARCH, ok)
          /\ LET g == [gen EXCEPT !.reads = IF use_cache THEN 1 ELSE 0,
                                  !.checkedAt = now,
                                  !.cached = IF use_cache
                                             THEN redis_get(redis, gen.question, now)
                                             ELSE None,
                                  !.searched = TRUE]
             IN IF hsCall'.raised
                THEN gen' = Raised(g, "search") /\ redis' = redis
                ELSE IF no_results(hsCall'.results)
                THEN /\ gen' = [g EXCEPT !.pc = "at_none",
                                         !.yielded = <<Some(NoInfoMessage)>>]
                     /\ redis' = redis
                ELSE LET gg == [g EXCEPT !.found = Len(hsCall'.results),
                                         !.generated = TRUE]
                     IN \/ gen' = Raised(gg, "generation") /\ redis' = redis
                        \/ /\ use_streaming(gen.stream)
                           /\ \E frags \in SeqsUpTo(Deltas, MaxFrags),
                                 ends \in {"end", "error"} :
                                 LET r == StreamRun([gg EXCEPT !.frags = frags,
                                                               !.ends = ends],
                                                    redis, now, use_cache, redisUp)
                                 IN gen' = r.gen /\ redis' = r.redis
                        \/ /\ ~use_streaming(gen.stream)
                           /\ \E answer \in Answers :
                                 LET r == AnswerRun(gg, answer, redis, now,
                                                    use_cache, redisUp)
                                 IN gen' = r.gen /\ redis' = r.redis
    /\ UNCHANGED <<embedVars, sessionVars, chunkVars, use_cache, connected, redisUp, now>>

\* A later next() of a streaming generator.
StreamNext ==
    /\ gen.pc = "streaming"
    /\ LET r == StreamRun(gen, redis, now, use_cache, redisUp)
       IN gen' = r.gen /\ redis' = r.redis
    /\ UNCHANGED <<embedVars, sessionVars, chunkVars, storeVars, hybridVars, use_cache, connected, redisUp, now>>

\* The next() after a single yield: the generator returns.
Return ==
    /\ gen.pc \in {"at_hit", "at_none", "at_answer"}
    /\ gen' = [gen EXCEPT !.pc = "done"]
    /\ UNCHANGED <<embedVars, sessionVars, chunkVars, storeVars, hybridVars, use_cache, connected, redisUp, redis, now>>

\* The caller stops consuming: the generator is closed where it is suspended,
\* and no further line of it runs.
Close ==
    /\ gen.pc \in {"created", "at_hit", "at_none", "at_answer", "streaming"}
    /\ gen' = [gen EXCEPT !.pc = "closed"]
    /\ UNCHANGED <<embedVars, sessionVars, chunkVars, storeVars, hybridVars, use_cache, connected, redisUp, redis, now>>

\* The cache backend goes away, or comes back with what it held.
RedisToggle ==
    /\ redisUp' = ~redisUp
    /\ UNCHANGED <<embedVars, sessionVars, chunkVars, storeVars, hybridVars, use_cache, connected, redis, now, gen>>

\* A new QueryEngine (a new run of the program) over the same backend.
NewEngine ==
    /\ gen.pc \in {"none", "done", "raised", "closed"}
    /\ connected' = redisUp
    /\ use_cache' = init_use_cache(redisUp)
    /\ gen' = NoGen
    /\ UNCHANGED <<embedVars, sessionVars, chunkVars, storeVars, hybridVars, redisUp, redis, now>>

\* Time passes, half a TTL at a time: an entry is live half a TTL after its
\* write and gone a full TTL after it.
TickStep == CACHE_TTL \div 2

Tick ==
    /\ gen.pc \in {"none", "done", "raised", "closed"}
    /\ now < MaxTicks * TickStep
    /\ now' = now + TickStep
    /\ UNCHANGED <<embedVars, sessionVars, chunkVars, storeVars, hybridVars, use_cache, connected, redisUp, redis, gen>>

\* The chunk list the query engine's specification is built on.
QCorpus == <<Chunk1, Chunk3>>

\* The engine is constructed on a store and a ranker as constructed (nothing
\* indexed, nothing on disk) or as process_resumes leaves them for QCorpus.
InitQ ==
    /\ argsortTies = "high_first"
    /\ vsCall = [op |-> "init", raised |-> FALSE, results |-> <<>>]
    /\ hsCall = NoCall
    /\ \/ InitStore /\ InitHybrid
       \/ LET r == get_embeddings_batch(Contents(QCorpus), [t \in Texts |-> None],
                                        [b \in {1} |-> TRUE])
          IN /\ cache = r.cache
             /\ index = create_index_index(QCorpus, r.vecs)
             /\ metadata = create_index_metadata(QCorpus, <<>>)
             /\ indexFile = save_indexFile("ok", index, None)
             /\ metaFile = save_metaFile("ok", metadata, None)
             /\ documents = QCorpus
             /\ bm25 = Some(build_bm25_corpus(QCorpus))
    /\ redisUp \in BOOLEAN
    /\ connected = redisUp
    /\ use_cache = init_use_cache(redisUp)
    /\ redis = [q \in Queries |-> None]
    /\ now = 0
    /\ gen = NoGen
    /\ emCall = NoEmCall
    /\ gen2 = NoGen
    /\ resume_chunks = <<>>

NextQ ==
    \/ Call
    \/ CheckRaises
    \/ CacheHit
    \/ CacheMiss
    \/ StreamNext
    \/ Return
    \/ Close
    \/ RedisToggle
    \/ NewEngine
    \/ Tick

SpecQuery == InitQ /\ [][NextQ]_vars

\* ------------------------------------------------- properties of QueryEngine
Active == gen.pc # "none"

\* The generator went into the streaming branch.
Streaming == Active /\ gen.generated /\ use_streaming(gen.stream)

RECURSIVE Concat(_)
Concat(texts) ==
    IF texts = <<>> THEN <<>> ELSE Head(texts).val \o Concat(Tail(texts))

NonEmptyOf(frags) == SelectSeq(frags, LAMBDA d : d # <<>>)

\* C2: in streaming mode the answer cache is written only after the stream has
\* delivered its end signal; while it has not (the caller stopped early, the
\* stream failed, or fragments are still to come) there has been no write and
\* the question's cache entry is what it was when the query was made.
C2_NoPartialResponseCached ==
    Streaming =>
        /\ gen.writes # <<>> => gen.ended
        /\ ~gen.ended => redis[gen.question] = gen.entry0

\* A caching engine whose caller closed the stream after a fragment, with
\* another fragment still to come.
C2_Witness ==
    /\ Streaming /\ gen.pc = "closed"
    /\ use_cache /\ redisUp
    /\ gen.yielded # <<>>
    /\ NextContent(gen.frags, gen.pos) > 0
    /\ gen.writes = <<>>

\* C3: in both generation modes, every write to the answer cache carries a
\* non-empty answer and the configured TTL.
C3_WritesNonEmptyWithTTL ==
    Active =>
        \A i \in 1..Len(gen.writes) :
            gen.writes[i].text # <<>> /\ gen.writes[i].ttl = CACHE_TTL

\* C4: on a cache hit the query yields exactly one item, the text that was
\* cached, and neither searches, nor generates, nor writes the cache, whatever
\* the stream flag.
C4_HitYieldsCachedOnly ==
    (Active /\ gen.hit) =>
        /\ gen.yielded = <<Some(gen.entry0.val.text)>>
        /\ ~gen.searched /\ ~gen.generated
        /\ gen.writes = <<>>
        /\ redis[gen.question] = gen.entry0
        /\ gen.pc \in {"at_hit", "done", "closed"}

\* A hit on an answer with a two-byte character, asked for as a stream and
\* consumed to the end.
C4_Witness ==
    /\ Active /\ gen.hit /\ gen.stream /\ gen.pc = "done"
    /\ \E i \in 1..Len(gen.entry0.val.text) : gen.entry0.val.text[i] > 127

\* The generator got past the cache check of an engine with the cache in use.
CheckedCache == Active /\ gen.reads = 1 /\ (gen.hit \/ gen.searched)

\* C5: a query for a question whose answer an earlier query cached returns
\* exactly that answer without generating while the TTL has not elapsed; once
\* it has, the query is a miss and searches and generates again.
C5_CacheRoundTrip ==
    (CheckedCache /\ gen.entry0.some) =>
        IF gen.checkedAt < gen.entry0.val.exp
        THEN /\ gen.hit /\ ~gen.generated
             /\ gen.yielded = <<Some(gen.entry0.val.text)>>
        ELSE ~gen.hit /\ gen.searched /\ gen.generated

\* C6: on a miss where the ranker returns no results the query yields only
\* the fixed message, does not generate and does not write the cache.
C6_NoResultsMessage ==
    (Active /\ gen.searched /\ ~hsCall.raised /\ hsCall.results = <<>>) =>
        /\ gen.yielded = <<Some(NoInfoMessage)>>
        /\ ~gen.generated
        /\ gen.writes = <<>>
        /\ redis[gen.question] = gen.entry0
        /\ gen.pc \in {"at_none", "done", "closed"}

\* A caching engine with a reachable backend answered with the fixed message.
C6_Witness ==
    /\ Active /\ gen.searched /\ ~hsCall.raised /\ hsCall.results = <<>>
    /\ use_cache /\ redisUp
    /\ gen.pc = "done"

\* C7: in streaming mode the caller has received the non-empty fragments of
\* the chunks read so far, in the service's order; while the generator is
\* suspended the last chunk read is the fragment just yielded; and what is
\* written to the cache when the stream completes is the concatenation of the
\* fragments yielded.
C7_FragmentsInOrder ==
    Streaming =>
        /\ gen.yielded = [i \in 1..Len(NonEmptyOf(SubSeq(gen.frags, 1, gen.pos))) |->
                             Some(NonEmptyOf(SubSeq(gen.frags, 1, gen.pos))[i])]
        /\ (gen.pc \in {"streaming", "closed"} /\ gen.pos > 0) =>
               gen.yielded[Len(gen.yielded)] = Some(gen.frags[gen.pos])
        /\ \A i \in 1..Len(gen.writes) : gen.writes[i].text = Concat(gen.yielded)
        /\ gen.writes # <<>> =>
               /\ redis[gen.question].some
               /\ redis[gen.question].val.text = Concat(gen.yielded)

\* A stream of two different fragments ran to its end and was cached.
C7_Witness ==
    /\ Streaming /\ gen.pc = "done" /\ gen.ended
    /\ Len(gen.yielded) = 2 /\ gen.yielded[1] # gen.yielded[2]
    /\ gen.writes # <<>>

\* C8: an engine constructed while the backend was unreachable never reads or
\* writes the backend afterwards, no query of it fails on the cache, and every
\* query goes on to the search.
C8_DisabledForTheSession ==
    (Active /\ ~connected) =>
        /\ gen.reads = 0
        /\ gen.writes = <<>>
        /\ redis[gen.question] = gen.entry0
        /\ gen.err \notin {"cache", "cache_value"}
        /\ gen.checkedAt >= 0 => gen.searched

\* An engine constructed without the backend generated an answer although the
\* backend was back and held a live answer for the question.
C8_Witness ==
    /\ Active /\ ~connected /\ redisUp
    /\ gen.pc = "done" /\ gen.generated
    /\ gen.entry0.some /\ gen.checkedAt < gen.entry0.val.exp
    /\ gen.entry0.val.text # <<>>

\* C9: no query raises a failure of the cache backend to its caller.
C9_CacheFailureNotRaised ==
    Active => gen.err # "cache"

\* ------------------------------------------------------------ ranked lists
\* The largest k, and the longest chunk list, of the specification of the
\* ranked list.
MaxRankK == 2
MaxRankCorpus == 3

\* The program after process_resumes over some chunk list, the embedding
\* service having answered or failed.
InitR ==
    /\ argsortTies \in {"low_first", "high_first"}
    /\ \E docs \in SeqsUpTo(Chunks, MaxRankCorpus) \ {<<>>} :
       \E oks \in [{1} -> BOOLEAN] :
          LET r == get_embeddings_batch(Contents(docs), [t \in Texts |-> None], oks)
          IN /\ cache = r.cache
             /\ index = create_index_index(docs, r.vecs)
             /\ metadata = create_index_metadata(docs, <<>>)
             /\ indexFile = save_indexFile("ok", index, None)
             /\ metaFile = save_metaFile("ok", metadata, None)
             /\ documents = docs
             /\ bm25 = Some(build_bm25_corpus(docs))
    /\ vsCall = [op |-> "create_index", raised |-> FALSE, results |-> <<>>]
    /\ hsCall = NoCall
    /\ InitNoEngine

RSearch ==
    \E q \in {Query1}, k \in 0..MaxRankK :
    \E ok \in ServiceOutcomes(q, cache) : HSearchStep(q, k, ok)

NextR ==
    \/ RSearch /\ UNCHANGED <<queryVars, embedVars, sessionVars, chunkVars>>
    \/ Restart /\ UNCHANGED <<queryVars, embedVars, sessionVars, chunkVars>>
    \/ Clear /\ UNCHANGED <<hybridVars, queryVars, embedVars, sessionVars, chunkVars>>

SpecRank == InitR /\ [][NextR]_vars

\* The chunk key (source file, place in the file) of a chunk.
ChunkKey(doc) == <<doc.filename, doc.chunk_id>>

Returned == hsCall.op = "search" /\ ~hsCall.raised

\* The keys the vector path, and the lexical path, of the last search found.
VectorKeys == {ChunkKey(hsCall.vector[i].doc) : i \in 1..Len(hsCall.vector)}
LexicalKeys == {ChunkKey(documents[hsCall.lexical[j]]) : j \in 1..Len(hsCall.lexical)}

\* C11: the list search returns holds no chunk key twice, every entry is a
\* candidate of one of the paths, and as many entries as distinct candidate
\* keys exist, up to k: keys that differ are never merged into one entry.
C11_NoDuplicateKeys ==
    Returned =>
        /\ \A a, b \in 1..Len(hsCall.results) :
              a # b => ChunkKey(hsCall.results[a].doc) # ChunkKey(hsCall.results[b].doc)
        /\ \A a \in 1..Len(hsCall.results) :
              ChunkKey(hsCall.results[a].doc) \in VectorKeys \cup LexicalKeys
        /\ Len(hsCall.results) = Min(hsCall.k, Cardinality(VectorKeys \cup LexicalKeys))

\* Two chunks of one file were returned, both found by both paths: four
\* candidates, two entries.
C11_Witness ==
    /\ Returned /\ Len(hsCall.results) = 2
    /\ hsCall.results[1].doc.filename = hsCall.results[2].doc.filename
    /\ Len(hsCall.vector) = 2 /\ Len(hsCall.lexical) = 2
    /\ VectorKeys = LexicalKeys

\* The last, and the first, position in 1..n that is in the set S of positions.
LastIn(n, S) == CHOOSE i \in S : \A j \in S : j <= i
FirstIn(n, S) == CHOOSE i \in S : \A j \in S : i <= j

\* The similarity the vector path gave the chunk with this key, 0 if it is no
\* vector candidate.
VectorScoreOf(key) ==
    LET has == {i \in 1..Len(hsCall.vector) : ChunkKey(hsCall.vector[i].doc) = key}
    IN IF key \in VectorKeys
       THEN hsCall.vector[LastIn(Len(hsCall.vector), has)].score
       ELSE <<0, 1>>

\* The lexical score of the chunk with this key over the highest score (over 1
\* when no score is positive), 0 if the chunk is not in the lexical top 2k.
KeywordScoreOf(key) ==
    LET has == {j \in 1..Len(hsCall.lexical) :
                    ChunkKey(documents[hsCall.lexical[j]]) = key}
        scores == get_scores(Tokenize(hsCall.query), bm25.val)
        top == CHOOSE m \in {scores[i] : i \in 1..Len(scores)} :
                  \A i \in 1..Len(scores) : scores[i] <= m
    IN IF key \in LexicalKeys
       THEN <<scores[hsCall.lexical[LastIn(Len(hsCall.lexical), has)]],
              IF top > 0 THEN top ELSE Scale>>
       ELSE <<0, 1>>

\* C12: every pair search returns has score 0.7 * v + 0.3 * kw, v the chunk's
\* similarity on the vector path (0 off it), kw its normalized score on the
\* lexical path (0 off it), with nothing renormalized.
C12_FusionFormula ==
    Returned =>
        \A a \in 1..Len(hsCall.results) :
            LET v == VectorScoreOf(ChunkKey(hsCall.results[a].doc))
                kw == KeywordScoreOf(ChunkKey(hsCall.results[a].doc))
            IN RatEq(hsCall.results[a].score,
                     <<7 * v[1] * kw[2] + 3 * kw[1] * v[2], 10 * v[2] * kw[2]>>)

\* A chunk found by both paths with a positive score on each was returned
\* first, before a chunk with another score.
C12_Witness ==
    /\ Returned /\ Len(hsCall.results) = 2
    /\ ChunkKey(hsCall.results[1].doc) \in VectorKeys \cap LexicalKeys
    /\ KeywordScoreOf(ChunkKey(hsCall.results[1].doc))[1] > 0
    /\ VectorScoreOf(ChunkKey(hsCall.results[1].doc))[1] > 0
    /\ RatLess(hsCall.results[2].score, hsCall.results[1].score)

\* Where the merge first saw a key: its place among the vector candidates, or
\* behind them its place among the lexical ones.
FirstSeen(key) ==
    LET inVector == {i \in 1..Len(hsCall.vector) : ChunkKey(hsCall.vector[i].doc) = key}
        inLexical == {j \in 1..Len(hsCall.lexical) :
                         ChunkKey(documents[hsCall.lexical[j]]) = key}
    IN IF key \in VectorKeys THEN FirstIn(Len(hsCall.vector), inVector)
       ELSE Len(hsCall.vector) + FirstIn(Len(hsCall.lexical), inLexical)

\* C13: the list search returns is in non-increasing order of combined score,
\* and entries of equal score are in first-seen merge order: vector candidates
\* in vector-result order, then the lexical-only ones in lexical-rank order.
C13_DescendingStable ==
    Returned =>
        \A a, b \in 1..Len(hsCall.results) :
            a < b =>
                /\ ~RatLess(hsCall.results[a].score, hsCall.results[b].score)
                /\ RatEq(hsCall.results[a].score, hsCall.results[b].score) =>
                       FirstSeen(ChunkKey(hsCall.results[a].doc))
                           < FirstSeen(ChunkKey(hsCall.results[b].doc))

\* Two chunks of equal combined score were returned.
C13_Witness ==
    /\ Returned /\ Len(hsCall.results) = 2
    /\ RatEq(hsCall.results[1].score, hsCall.results[2].score)
    /\ hsCall.vector # <<>>

\* This step is a search that repeats the search before it, nothing built,
\* added or cleared in between.
RepeatsSearch ==
    /\ Returned /\ vsCall.op = "search"
    /\ hsCall'.op = "search" /\ vsCall'.op = "search"
    /\ hsCall'.query = hsCall.query /\ hsCall'.k = hsCall.k

\* C14: a search that repeats the search before it returns the same list, the
\* same chunks with the same scores in the same order, whatever the embedding
\* service does and whatever the embedding cache holds.
C14_SearchIdempotent ==
    [][RepeatsSearch => (~hsCall'.raised /\ hsCall'.results = hsCall.results)]_vars

\* ------------------------------------------------------------ search_with_filter
\* The filters of the calls: no filter, a file, another file, a field the
\* chunks of the model do not have, and a file with a place in it.
NoFilter == [key \in {} |-> ""]
FilterSets == {NoFilter, [filename |-> "a.pdf"], [filename |-> "b.pdf"],
               [section |-> "skills"], [filename |-> "a.pdf", chunk_id |-> 1]}

\* A filter under which a chunk without the field does not match.
filter_match_strict(doc, filters) ==
    \A key \in DOMAIN filters : key \in DOMAIN doc /\ doc[key] = filters[key]

\* The inner loop of lines 92-96: no filter key is in the chunk with another value.
filter_match(doc, filters) ==
    ~\E key \in DOMAIN filters : key \in DOMAIN doc /\ doc[key] # filters[key]

\* The outer loop of lines 89-99.
RECURSIVE filtered_results(_, _)
filtered_results(all_results, filters) ==
    IF all_results = <<>> THEN <<>>
    ELSE (IF filter_match(Head(all_results).doc, filters)
          THEN <<Head(all_results)>> ELSE <<>>)
             \o filtered_results(Tail(all_results), filters)

\* search_with_filter(query, filters, k) with the embedding service answering
\* (ok) or failing: search(query, k * 3), the loop, the slice.
FSearchStep(q, filters, k, ok) ==
    LET v == vector_search(q, 2 * (k * 3), index, metadata, indexFile, metaFile,
                           cache, ok, "ok")
        all_results == hybrid_search(q, k * 3, v.results, bm25, documents, argsortTies)
    IN /\ index' = v.index
       /\ metadata' = v.metadata
       /\ cache' = v.cache
       /\ vsCall' = [op |-> "search", raised |-> v.raised, results |-> v.results]
       /\ hsCall' = IF v.raised
                    THEN [op |-> "search_with_filter", raised |-> TRUE, query |-> q,
                          k |-> k, filters |-> filters]
                    ELSE [op |-> "search_with_filter", raised |-> FALSE, query |-> q,
                          k |-> k, filters |-> filters,
                          searched_k |-> k * 3,
                          all_results |-> all_results,
                          results |-> truncate(filtered_results(all_results, filters), k)]
       /\ UNCHANGED <<indexFile, metaFile, bm25, documents, argsortTies>>

\* The call is a function of the state process_resumes left and of its
\* arguments: each behaviour applies it once.
FSearch ==
    /\ hsCall = NoCall
    /\ \E q \in Queries, filters \in FilterSets, k \in 0..MaxRankK :
       \E ok \in ServiceOutcomes(q, cache) : FSearchStep(q, filters, k, ok)

NextF == FSearch /\ UNCHANGED <<queryVars, embedVars, sessionVars, chunkVars>>

SpecFilter == InitR /\ [][NextF]_vars

FilterReturned == hsCall.op = "search_with_filter" /\ ~hsCall.raised

\* The places in the list of search(query, 3k) of the candidates in which every
\* filter key they have has the filter's value.
Matching ==
    {i \in 1..Len(hsCall.all_results) :
        \A key \in DOMAIN hsCall.filters \cap DOMAIN hsCall.all_results[i].doc :
            hsCall.all_results[i].doc[key] = hsCall.filters[key]}

\* C15: search_with_filter(query, filters, k) returns the first k matching
\* candidates of search(query, 3k), in that list's order; a filter key a
\* candidate does not have counts as a match.
C15_FilterSubsequence ==
    FilterReturned =>
        /\ hsCall.searched_k = 3 * hsCall.k
        /\ Len(hsCall.results) = Min(hsCall.k, Cardinality(Matching))
        /\ \A r \in 1..Len(hsCall.results) :
              \E i \in Matching :
                 /\ Cardinality({j \in Matching : j < i}) = r - 1
                 /\ hsCall.results[r] = hsCall.all_results[i]

\* A filter left out the first candidate and two later ones were returned.
C15_Witness ==
    /\ FilterReturned /\ Len(hsCall.results) = 2
    /\ 1 \notin Matching
    /\ Len(hsCall.all_results) = 3

\* ------------------------------------------------------------ the adapter alone
\* The longest input list of a batch call holds this many full sub-batches and
\* one text more.
MaxBatches == 2

EmbedShort == {Chunk1.content, Chunk3.content}
\* A text one token over the budget.
LongText == [i \in 1..(MAX_TOKENS + 1) |-> "Go"]
EmbedTexts == EmbedShort \cup {LongText}

\* The list of n texts that repeats a pattern.
Repeat(pattern, n) == [i \in 1..n |-> pattern[((i - 1) % Len(pattern)) + 1]]

BatchLengths == {0, 1, 2, 3, batch_size + 1, MaxBatches * batch_size + 1}

BatchInputs ==
    {Repeat(pattern, n) : pattern \in SeqsUpTo(EmbedShort, 3) \ {<<>>}, n \in BatchLengths}
        \cup {<<LongText>>, <<Chunk1.content, LongText, Chunk1.content>>}

\* The adapter with any embedding cache earlier calls can have left.
InitE ==
    /\ \E cached \in SUBSET EmbedTexts :
          cache = [t \in EmbedTexts |->
                      IF t \in cached THEN Some(ServiceVector(truncate_tokens(t)))
                      ELSE None]
    /\ index = None
    /\ metadata = <<>>
    /\ indexFile = None
    /\ metaFile = None
    /\ vsCall = [op |-> "init", raised |-> FALSE, results |-> <<>>]
    /\ InitHybrid
    /\ argsortTies = "low_first"
    /\ InitNoEngine

\* get_embedding(text) called on its own.  A call is a function of its
\* argument, the cache and what the service does: each behaviour makes one.
EmbedOne ==
    /\ emCall = NoEmCall
    /\ \E text \in EmbedTexts : \E ok \in ServiceOutcomes(text, cache) :
          LET r == get_embedding(text, cache, ok)
          IN /\ cache' = r.cache
             /\ emCall' = [op |-> "get_embedding", text |-> text, before |-> cache,
                           ok |-> ok, vec |-> r.vec,
                           sent |-> get_embedding_sent(text, cache)]
    /\ UNCHANGED <<index, metadata, indexFile, metaFile, vsCall, hybridVars, queryVars,
                   sessionVars, chunkVars>>

\* get_embeddings_batch(texts) called on its own.
EmbedBatch ==
    /\ emCall = NoEmCall
    /\ \E texts \in BatchInputs : \E oks \in BatchOutcomes(texts, cache) :
          LET r == get_embeddings_batch(texts, cache, oks)
          IN /\ cache' = r.cache
             /\ emCall' = [op |-> "get_embeddings_batch", texts |-> texts,
                           before |-> cache, oks |-> oks, vecs |-> r.vecs,
                           sent |-> get_embeddings_batch_sent(texts, cache)]
    /\ UNCHANGED <<index, metadata, indexFile, metaFile, vsCall, hybridVars, queryVars,
                   sessionVars, chunkVars>>

NextE == EmbedOne \/ EmbedBatch

SpecEmbed == InitE /\ [][NextE]_vars

BatchCalled == emCall.op = "get_embeddings_batch"

\* Whether the i-th text of the batch call was in the cache when the call was made.
WasCached(i) == emCall.before[emCall.texts[i]].some

\* The sub-batch the i-th text went out in: the uncached texts before it, in
\* hundreds.
SubBatchOf(i) ==
    (Cardinality({j \in 1..(i - 1) : ~WasCached(j)}) \div batch_size) + 1

\* C16: get_embeddings_batch(texts) returns as many vectors as texts, the i-th
\* being the vector of texts[i] (the cached one, or the service's when its
\* request succeeded), whatever is cached, however many sub-batches go out and
\* however often a text occurs.
C16_BatchOrderPreserved ==
    BatchCalled =>
        /\ Len(emCall.vecs) = Len(emCall.texts)
        /\ \A i \in 1..Len(emCall.texts) :
              IF WasCached(i)
              THEN emCall.vecs[i] = emCall.before[emCall.texts[i]].val
              ELSE emCall.oks[SubBatchOf(i)] =>
                      emCall.vecs[i] = ServiceVector(emCall.texts[i])

\* A list of two different texts, one of them cached, whose uncached texts went
\* out in two sub-batches that both succeeded.
C16_Witness ==
    /\ BatchCalled
    /\ Len(emCall.sent) = 2 /\ emCall.oks = <<TRUE, TRUE>>
    /\ \E i, j \in 1..Len(emCall.texts) :
          /\ i < j /\ WasCached(i) /\ ~WasCached(j)
          /\ emCall.vecs[i] # emCall.vecs[j]

\* C17: a failed call to the embedding service does not abort the adapter:
\* get_embedding returns the zero vector, and get_embeddings_batch gives the
\* zero vector to the texts of the failed sub-batches and to no other, sends
\* every sub-batch whatever became of the ones before, and returns a vector
\* per text.
C17_ZeroVectorOnFailure ==
    /\ (emCall.op = "get_embedding" /\ emCall.sent # <<>> /\ ~emCall.ok) =>
           emCall.vec = ZeroVector
    /\ BatchCalled =>
           /\ Len(emCall.vecs) = Len(emCall.texts)
           /\ Len(emCall.sent) =
                  NumBatches(Cardinality({i \in 1..Len(emCall.texts) : ~WasCached(i)}))
           /\ \A i \in 1..Len(emCall.texts) :
                  emCall.vecs[i] = ZeroVector <=>
                      (~WasCached(i) /\ ~emCall.oks[SubBatchOf(i)])

\* Three sub-batches went out; the second failed, the third succeeded.
C17_Witness ==
    /\ BatchCalled
    /\ emCall.oks = <<TRUE, FALSE, TRUE>>
    /\ emCall.vecs[Len(emCall.vecs)] # ZeroVector
    /\ emCall.vecs[batch_size + 1] = ZeroVector

\* C18: every text sent to the embedding service, by get_embedding and by
\* get_embeddings_batch, has at most 8191 tokens.
C18_SentWithinBudget ==
    emCall.op # "init" =>
        \A r \in 1..Len(emCall.sent) : \A j \in 1..Len(emCall.sent[r]) :
            Len(emCall.sent[r][j]) <= MAX_TOKENS

\* ------------------------------------------------------------ the store across runs
\* The vector store as a library over several runs of the program: builds,
\* additions, clear and searches in any order, a new process at any moment
\* (Restart), and HybridSearch.search over the store by a ranker whose lexical
\* index was never built.
\* add_documents while the index holds no more than MaxMeta vectors afterwards
\* (an index loaded beside an unreadable metadata file grows at every run).
AddDocumentsS == AddDocuments /\ Len(index'.val) <= MaxMeta

NextS ==
    \/ CreateIndex /\ UNCHANGED <<hybridVars, queryVars, embedVars, sessionVars, chunkVars>>
    \/ AddDocumentsS /\ UNCHANGED <<hybridVars, queryVars, embedVars, sessionVars, chunkVars>>
    \/ Clear /\ UNCHANGED <<hybridVars, queryVars, embedVars, sessionVars, chunkVars>>
    \/ VSearch /\ UNCHANGED <<hybridVars, queryVars, embedVars, sessionVars, chunkVars>>
    \/ Restart /\ UNCHANGED <<queryVars, embedVars, sessionVars, chunkVars>>
    \/ HSearch /\ UNCHANGED <<queryVars, embedVars, sessionVars, chunkVars>>

SpecStore == Init /\ [][NextS]_vars

\* The store holds no document: no metadata, and either an index of no vectors
\* or no index and no persisted pair to load.
EmptyCorpus ==
    /\ metadata = <<>>
    /\ IF index.some THEN Len(index.val) = 0
       ELSE ~(indexFile.some /\ metaFile.some)

\* The step is a search: of the store alone, or through the ranker.
SearchStep == vsCall'.op = "search"

RankerSearchStep == SearchStep /\ hsCall'.op = "search" /\ hsCall' # hsCall

\* C19: a search over a store that holds no document returns the empty list
\* and does not raise, from VectorStore.search and from HybridSearch.search,
\* for every query.
C19_EmptyCorpusSearchReturns ==
    [][(EmptyCorpus /\ SearchStep) =>
          /\ ~vsCall'.raised /\ vsCall'.results = <<>>
          /\ RankerSearchStep => (~hsCall'.raised /\ hsCall'.results = <<>>)]_vars

\* The step is a search that found no index resident and reads the persisted
\* pair.
LoadStep == SearchStep /\ ~index.some /\ indexFile.some /\ metaFile.some

\* C20: after a load from durable storage the store holds an index with a
\* metadata list of equal length, or no index at all.
C20_LoadedAsPair ==
    [][LoadStep => (index'.some => Len(metadata') = Len(index'.val))]_vars

\* ------------------------------------------------------------ the lexical scenario
\* The scores the lexical path of the last search gave the chunks, one per
\* chunk of the lexical index (bm25_scores).
LexicalScores == get_scores(Tokenize(hsCall.query), bm25.val)

\* The last call was search("Go developer", k) over the lexical index of the
\* three chunks, in their order.
ScenarioSearched ==
    /\ Returned /\ bm25.some
    /\ documents = <<Chunk1, Chunk2, Chunk3>>
    /\ hsCall.query = Query1

\* C21: over the chunks "Python and Go experience", "Senior Java developer",
\* "Go backend engineer", the lexical scoring of the query "Go developer" puts
\* chunk 1 and chunk 3 both above chunk 2.
C21_GoChunksAboveJava ==
    ScenarioSearched =>
        /\ LexicalScores[1] > LexicalScores[2]
        /\ LexicalScores[3] > LexicalScores[2]

\* ------------------------------------------------------------ the two indexes
\* The ranker and its store as process_resumes returns them, then a change of
\* the store's chunk set by add_documents or create_index, then a search.
StoreAsBuilt ==
    /\ hsCall = NoCall
    /\ metadata = documents
    /\ index.some /\ Len(index.val) = Len(documents)

NextC ==
    \/ StoreAsBuilt /\ AddDocumentsS /\ UNCHANGED <<hybridVars, queryVars, embedVars, sessionVars, chunkVars>>
    \/ StoreAsBuilt /\ CreateIndex /\ UNCHANGED <<hybridVars, queryVars, embedVars, sessionVars, chunkVars>>
    \/ hsCall = NoCall /\ RSearch /\ UNCHANGED <<queryVars, embedVars, sessionVars, chunkVars>>

SpecChunks == InitR /\ [][NextC]_vars

\* The lexical index is the one build_bm25_index makes of the chunk list the
\* vector index holds (none for no chunks).
LexicalCoversStore ==
    /\ documents' = metadata'
    /\ IF metadata' = <<>> THEN ~bm25'.some
       ELSE bm25'.some /\ bm25'.val = build_bm25_corpus(metadata')

\* C22: at every search of the ranker the lexical index covers the chunk set
\* of the vector index, whatever create_index and add_documents did to the
\* store before.
C22_LexicalIndexFollowsStore ==
    [][RankerSearchStep => LexicalCoversStore]_vars

\* ------------------------------------------------------------ the batch requests
\* C23: get_embeddings_batch sends only texts that were not in the cache when
\* the call started, at most batch_size of them in one request, and after a
\* request that succeeded every text of it is in the cache under its own text
\* (the cache of the model keeps what is set: expire=None).
C23_BatchRequests ==
    BatchCalled =>
        \A r \in 1..Len(emCall.sent) :
            /\ Len(emCall.sent[r]) <= batch_size
            /\ \A j \in 1..Len(emCall.sent[r]) :
                  /\ ~emCall.before[emCall.sent[r][j]].some
                  /\ emCall.oks[r] =>
                        /\ cache[emCall.sent[r][j]].some
                        /\ cache[emCall.sent[r][j]].val = ServiceVector(emCall.sent[r][j])

\* A call with a cached text among its inputs sent a full request that failed
\* and a second one that succeeded and left its text in the cache.
C23_Witness ==
    /\ BatchCalled
    /\ emCall.oks = <<FALSE, TRUE>>
    /\ Len(emCall.sent[1]) = batch_size
    /\ \E i \in 1..Len(emCall.texts) : WasCached(i)
    /\ cache[emCall.sent[2][1]].some

\* ------------------------------------------------------------ the fallback vector
\* The i-th text of the batch call went to the service and none of the
\* requests that carried it succeeded.
EveryRequestFailed(i) ==
    \A r \in 1..Len(emCall.sent) :
        emCall.oks[r] =>
            \A j \in 1..Len(emCall.sent[r]) : emCall.sent[r][j] # emCall.texts[i]

\* C25: the zero vector of a failed request is never written to the embedding
\* cache: after get_embedding or get_embeddings_batch failed for a text the
\* cache has no entry for it, so that the next get_embedding of the text goes
\* to the service, and every vector in the cache is the one the service
\* answered for its text.
C25_FallbackNotCached ==
    /\ \A t \in DOMAIN cache :
          cache[t].some =>
             /\ cache[t].val # ZeroVector
             /\ cache[t].val \in {ServiceVector(t), ServiceVector(truncate_tokens(t))}
    /\ (emCall.op = "get_embedding" /\ emCall.sent # <<>> /\ ~emCall.ok) =>
          /\ ~cache[emCall.text].some
          /\ get_embedding_sent(emCall.text, cache) # <<>>
    /\ BatchCalled =>
          \A i \in 1..Len(emCall.texts) :
              (~WasCached(i) /\ EveryRequestFailed(i)) =>
                  /\ emCall.vecs[i] = ZeroVector
                  /\ ~cache[emCall.texts[i]].some
                  /\ get_embedding_sent(emCall.texts[i], cache) # <<>>

\* Both requests of a batch call failed, and a text of it is still not in the
\* cache beside one that was cached before.
C25_Witness ==
    /\ BatchCalled
    /\ emCall.oks = <<FALSE, FALSE>>
    /\ \E i, j \in 1..Len(emCall.texts) :
          /\ WasCached(i)
          /\ ~WasCached(j) /\ ~cache[emCall.texts[j]].some

\* ------------------------------------------------------------ clear()
\* The store with clear(): builds, additions, clear, searches of the store and
\* of the ranker for one query, and a new process at any moment.
HSearchOne ==
    \E k \in 0..MaxK : \E ok \in ServiceOutcomes(Query1, cache) :
        HSearchStep(Query1, k, ok)

NextK ==
    \/ CreateIndex /\ UNCHANGED <<hybridVars, queryVars, embedVars, sessionVars, chunkVars>>
    \/ AddDocumentsS /\ UNCHANGED <<hybridVars, queryVars, embedVars, sessionVars, chunkVars>>
    \/ Clear /\ UNCHANGED <<hybridVars, queryVars, embedVars, sessionVars, chunkVars>>
    \/ VSearch /\ UNCHANGED <<hybridVars, queryVars, embedVars, sessionVars, chunkVars>>
    \/ Restart /\ UNCHANGED <<queryVars, embedVars, sessionVars, chunkVars>>
    \/ HSearchOne /\ UNCHANGED <<queryVars, embedVars, sessionVars, chunkVars>>

SpecClear == Init /\ [][NextK]_vars

\* The store as clear() leaves it: nothing resident, nothing persisted.
Cleared ==
    /\ ~index.some /\ metadata = <<>>
    /\ ~indexFile.some /\ ~metaFile.some

\* The step is a create_index or add_documents call.
BuildStep == vsCall'.op \in {"create_index", "add_documents"}

\* C26: clear() leaves no index resident, no metadata and neither persisted
\* file; from then until the next create_index or add_documents the store
\* stays so, and every search returns the empty list: its lazy load brings
\* nothing back.
C26_ClearedStaysCleared ==
    [][/\ vsCall'.op = "clear" => Cleared'
       /\ (Cleared /\ ~BuildStep) =>
             /\ Cleared'
             /\ SearchStep => (~vsCall'.raised /\ vsCall'.results = <<>>)]_vars

\* The ranker's last search found chunks in the index; the store was cleared
\* since, and the search of the store that followed returned the empty list.
C26_Witness ==
    /\ Cleared
    /\ vsCall.op = "search" /\ ~vsCall.raised /\ vsCall.results = <<>>
    /\ hsCall.op = "search" /\ ~hsCall.raised /\ hsCall.vector # <<>>

\* ------------------------------------------------------------ the chunk list
CHUNK_SIZE == 800
CHUNK_OVERLAP == 200

\* A text is known here by its length in characters, and a piece of it by the
\* slice text[from:to].
\* split_text(text, chunk_size, overlap): a slice of chunk_size characters
\* every chunk_size - overlap characters, while the start is inside the text.
split_text(len, chunk_size, overlap) ==
    [p \in 1..((len + (chunk_size - overlap) - 1) \div (chunk_size - overlap)) |->
        [from |-> (p - 1) * (chunk_size - overlap),
         to |-> Min((p - 1) * (chunk_size - overlap) + chunk_size, len)]]

\* sections.items(): the dict of extract_sections in its insertion order.
SectionNames == <<"skills", "experience", "education", "summary", "full">>

\* The pieces a section gives: none when it is empty, itself when it fits a
\* chunk, its split otherwise.
section_pieces(len) ==
    IF len = 0 THEN <<>>
    ELSE IF len > CHUNK_SIZE THEN split_text(len, CHUNK_SIZE, CHUNK_OVERLAP)
    ELSE <<[from |-> 0, to |-> len]>>

\* A counter that starts again at 0 in every section.
chunk_id_per_section(sections, s) == 0

\* chunk_id when the loop comes to section s: the chunks appended for the
\* sections of the file before it.
chunk_id_at(sections, s) ==
    SumSeq([r \in 1..(s - 1) |-> Len(section_pieces(sections[SectionNames[r]]))])

\* The chunk dicts of one section of a file.
section_chunks(filename, sections, s) ==
    LET pieces == section_pieces(sections[SectionNames[s]])
    IN [i \in 1..Len(pieces) |->
           [filename |-> filename, section |-> SectionNames[s],
            chunk_id |-> chunk_id_at(sections, s) + (i - 1),
            content |-> pieces[i]]]

\* The chunk dicts of one resume, section after section.
file_chunks(resume) ==
    section_chunks(resume.filename, resume.sections, 1)
        \o section_chunks(resume.filename, resume.sections, 2)
        \o section_chunks(resume.filename, resume.sections, 3)
        \o section_chunks(resume.filename, resume.sections, 4)
        \o section_chunks(resume.filename, resume.sections, 5)

\* documents: the chunk dicts of the resumes, resume after resume.
RECURSIVE process_chunks(_)
process_chunks(resumes) ==
    IF resumes = <<>> THEN <<>>
    ELSE file_chunks(Head(resumes)) \o process_chunks(Tail(resumes))

\* str(n)
DigitChar(d) == <<"0", "1", "2", "3", "4", "5", "6", "7", "8", "9">>[d + 1]

RECURSIVE Digits(_)
Digits(n) ==
    IF n < 10 THEN <<DigitChar(n)>> ELSE Digits(n \div 10) \o <<DigitChar(n % 10)>>

\* f"{doc['filename']}_{doc.get('chunk_id', 0)}" as the string it is.
doc_id_text(doc) == doc.filename \o <<"_">> \o Digits(doc.chunk_id)

\* The names of the files of the resume directory: "a.pdf" and "a.pdf_1.pdf".
FileA == <<"a", ".", "p", "d", "f">>
FileB == <<"a", ".", "p", "d", "f", "_", "1", ".", "p", "d", "f">>
FileNames == {FileA, FileB}

\* The lengths of the sections extract_sections finds: a section is empty, fits
\* a chunk, or is split; "full" is the whole text, which is not empty and holds
\* every section.
FoundLengths == {0, 1, CHUNK_SIZE + 1}
FullLengths == {1, CHUNK_SIZE + 1, 2 * (CHUNK_SIZE - CHUNK_OVERLAP) + 1}
SectionSets ==
    {f \in [{"skills", "experience", "education", "summary", "full"} ->
               FoundLengths \cup FullLengths] :
        /\ f["full"] \in FullLengths
        /\ \A n \in {"skills", "experience", "education", "summary"} :
              f[n] \in FoundLengths /\ f[n] <= f["full"]}

\* load_resumes: one entry per file of the directory that could be read.
ResumeLists ==
    {r \in UNION {[1..m -> [filename : FileNames, sections : SectionSets]] :
                     m \in 1..Cardinality(FileNames)} :
        \A i, j \in 1..Len(r) : r[i].filename = r[j].filename => i = j}

\* process_resumes, lines 44-74: the chunk list of the resumes loaded.
ChunkResumes ==
    /\ resume_chunks = <<>>
    /\ \E resumes \in ResumeLists : resume_chunks' = process_chunks(resumes)
    /\ UNCHANGED <<storeVars, hybridVars, queryVars, embedVars, sessionVars>>

SpecChunking == Init /\ [][ChunkResumes]_vars

\* C27: the chunks of a list process_resumes makes have pairwise different
\* (filename, chunk_id) pairs: chunk_id counts the chunks of the file so far,
\* from 0, across its sections; and the ranker's key of two different chunks,
\* as a tuple and as the string the code formats, is different.
C27_ChunkKeysDistinct ==
    \A j \in 1..Len(resume_chunks) :
        /\ resume_chunks[j].chunk_id =
               Cardinality({i \in 1..(j - 1) :
                               resume_chunks[i].filename = resume_chunks[j].filename})
        /\ \A i \in 1..(j - 1) :
              /\ ChunkKey(resume_chunks[i]) # ChunkKey(resume_chunks[j])
              /\ doc_id(resume_chunks[i]) # doc_id(resume_chunks[j])
              /\ doc_id_text(resume_chunks[i]) # doc_id_text(resume_chunks[j])

\* Two files, one of them with a chunk numbered 10: every section of it was
\* split.
C27_Witness ==
    /\ \E i \in 1..Len(resume_chunks) :
          resume_chunks[i].chunk_id = 10 /\ resume_chunks[i].section = "full"
    /\ \E i, j \in 1..Len(resume_chunks) :
          resume_chunks[i].filename # resume_chunks[j].filename

\* ------------------------------------------------------------ two query sessions
\* Two sessions on one cache backend, each making one query(Query1, stream)
\* call and consuming its generator; the steps of the two interleave at the
\* generators' yields.  Session 1's generator is gen, session 2's is gen2.
Sessions == {1, 2}

Session(s) == IF s = 1 THEN gen ELSE gen2

SetSession(s, g) ==
    IF s = 1 THEN gen' = g /\ gen2' = gen2 ELSE gen2' = g /\ gen' = gen

\* query(question, stream): the session gets its generator.
SCall(s) ==
    /\ Session(s).pc = "none"
    /\ \E stream \in BOOLEAN : SetSession(s, NewGen(Query1, stream))
    /\ UNCHANGED <<embedVars, chunkVars, storeVars, hybridVars, use_cache, connected,
                   redisUp, redis, now>>

\* The first next() of the session's generator: the cache check, and on a
\* hit the yield of the cached text; on a miss the search, then the "no
\* information" yield, or the generation call and the run up to the first
\* yield, the return or the raise.
SFirst(s) ==
    LET g0 == Session(s)
    IN /\ g0.pc = "created"
       /\ use_cache /\ redisUp
       /\ LET cached == redis_get(redis, g0.question, now)
              g == [g0 EXCEPT !.reads = 1, !.checkedAt = now, !.cached = cached]
          IN IF is_hit(cached)
             THEN /\ SetSession(s, [g EXCEPT !.pc = "at_hit", !.hit = TRUE,
                                             !.yielded = <<Some(utf8_decode(cached.val))>>])
                  /\ UNCHANGED <<storeVars, hybridVars, redis>>
             ELSE \E ok \in ServiceOutcomes(g0.question, cache) :
                  /\ HSearchStep(g0.question, TOP_K_SEARCH, ok)
                  /\ LET gs == [g EXCEPT !.searched = TRUE]
                     IN IF hsCall'.raised
                        THEN SetSession(s, Raised(gs, "search")) /\ redis' = redis
                        ELSE IF no_results(hsCall'.results)
                        THEN /\ SetSession(s, [gs EXCEPT !.pc = "at_none",
                                                    !.yielded = <<Some(NoInfoMessage)>>])
                             /\ redis' = redis
                        ELSE LET gg == [gs EXCEPT !.found = Len(hsCall'.results),
                                                  !.generated = TRUE]
                             IN \/ SetSession(s, Raised(gg, "generation")) /\ redis' = redis
                                \/ /\ use_streaming(g0.stream)
                                   /\ \E frags \in SeqsUpTo(Deltas, MaxFrags),
                                         ends \in {"end", "error"} :
                                         LET r == StreamRun([gg EXCEPT !.frags = frags,
                                                                       !.ends = ends],
                                                            redis, now, use_cache, redisUp)
                                         IN SetSession(s, r.gen) /\ redis' = r.redis
                                \/ /\ ~use_streaming(g0.stream)
                                   /\ \E answer \in Answers :
                                         LET r == AnswerRun(gg, answer, redis, now,
                                                            use_cache, redisUp)
                                         IN SetSession(s, r.gen) /\ redis' = r.redis
       /\ UNCHANGED <<embedVars, chunkVars, use_cache, connected, redisUp, now>>

\* A later next() of the session's streaming generator.
SStreamNext(s) ==
    /\ Session(s).pc = "streaming"
    /\ LET r == StreamRun(Session(s), redis, now, use_cache, redisUp)
       IN SetSession(s, r.gen) /\ redis' = r.redis
    /\ UNCHANGED <<embedVars, chunkVars, storeVars, hybridVars, use_cache, connected,
                   redisUp, now>>

\* The next() after a single yield: the session's generator returns.
SReturn(s) ==
    /\ Session(s).pc \in {"at_hit", "at_none", "at_answer"}
    /\ SetSession(s, [Session(s) EXCEPT !.pc = "done"])
    /\ UNCHANGED <<embedVars, chunkVars, storeVars, hybridVars, use_cache, connected,
                   redisUp, redis, now>>

\* The session's caller stops consuming.
SClose(s) ==
    /\ Session(s).pc \in {"created", "at_hit", "at_none", "at_answer", "streaming"}
    /\ SetSession(s, [Session(s) EXCEPT !.pc = "closed"])
    /\ UNCHANGED <<embedVars, chunkVars, storeVars, hybridVars, use_cache, connected,
                   redisUp, redis, now>>

\* Both engines were constructed with the backend reachable, over the store
\* and the ranker process_resumes leaves for QCorpus; the question's embedding
\* is in the embedding cache from an earlier query.
InitS ==
    /\ argsortTies = "high_first"
    /\ vsCall = [op |-> "init", raised |-> FALSE, results |-> <<>>]
    /\ hsCall = NoCall
    /\ LET r == get_embeddings_batch(Contents(QCorpus), [t \in Texts |-> None],
                                     [b \in {1} |-> TRUE])
       IN /\ cache = get_embedding(Query1, r.cache, TRUE).cache
          /\ index = create_index_index(QCorpus, r.vecs)
          /\ metadata = create_index_metadata(QCorpus, <<>>)
          /\ indexFile = save_indexFile("ok", index, None)
          /\ metaFile = save_metaFile("ok", metadata, None)
          /\ documents = QCorpus
          /\ bm25 = Some(build_bm25_corpus(QCorpus))
    /\ redisUp = TRUE
    /\ connected = TRUE
    /\ use_cache = init_use_cache(TRUE)
    /\ redis = [q \in Queries |-> None]
    /\ now = 0
    /\ gen = NoGen
    /\ gen2 = NoGen
    /\ emCall = NoEmCall
    /\ resume_chunks = <<>>

NextT ==
    \/ \E s \in Sessions : SCall(s)
    \/ \E s \in Sessions : SFirst(s)
    \/ \E s \in Sessions : SStreamNext(s)
    \/ \E s \in Sessions : SReturn(s)
    \/ \E s \in Sessions : SClose(s)

SpecSessions == InitS /\ [][NextT]_vars

\* The complete answer of a generator that got one: every fragment of its
\* stream, or the message of the non-streamed response.
CompleteAnswer(g) ==
    IF use_streaming(g.stream)
    THEN Concat([i \in 1..Len(g.frags) |-> Some(g.frags[i])])
    ELSE g.yielded[1].val

\* The generator wrote the cache, after its stream ended or with its
\* non-streamed answer, and text is its complete answer.
WroteComplete(g, text) ==
    /\ g.pc # "none" /\ g.writes # <<>>
    /\ use_streaming(g.stream) => (g.ended /\ g.ends = "end")
    /\ text = CompleteAnswer(g)

\* What the question's key holds is the complete answer of a session.
StoredIsComplete ==
    redis[Query1].some =>
        /\ redis[Query1].val.val = utf8_encode(redis[Query1].val.text)
        /\ \E s \in Sessions : WroteComplete(Session(s), redis[Query1].val.text)

\* The step changes what the question's key holds: it is the write of the
\* session that took the step, and the key holds that session's answer.
WriteOf(s) ==
    /\ Session(s).pc # "none"
    /\ SetSession(s, Session(s)')
    /\ Len(Session(s)'.writes) = Len(Session(s).writes) + 1
    /\ WroteComplete(Session(s)', redis'[Query1].val.text)

\* C24: with two sessions asking the same question on one backend, the
\* question's key holds at every moment nothing or the complete answer of one
\* of the sessions, and every change of it is the write of one session that
\* puts that session's complete answer in the place of what was there: the
\* session that writes last wins.
C24_LastWriteWins ==
    [][/\ StoredIsComplete'
       /\ redis'[Query1] # redis[Query1] => \E s \in Sessions : WriteOf(s)]_vars

\* Both sessions missed the cache and wrote different answers; both are done
\* and the key holds the answer of session 1, which streamed.
C24_Witness ==
    /\ gen.pc = "done" /\ gen2.pc = "done"
    /\ ~gen.hit /\ ~gen2.hit
    /\ gen.writes # <<>> /\ gen2.writes # <<>>
    /\ gen.writes[1].text # gen2.writes[1].text
    /\ use_streaming(gen.stream) /\ Len(gen.full_response) = 2
    /\ redis[Query1].val.text = gen.writes[1].text
====
